---- MODULE Spec2Model ----
(***************************************************************************)
(* bookmark-tui: a pager that shows the lines of a file centred in the     *)
(* terminal and scrolls with the arrow keys (src/src/main.rs).             *)
(*                                                                         *)
(* A file is a sequence of bytes.  A line is the byte string one           *)
(* read_line call returns (terminator included).  Terminal output is the   *)
(* sequence of crossterm commands the program queues.                      *)
(***************************************************************************)
EXTENDS Integers, Sequences, FiniteSets, TLC

(***************************************************************************)
(* Bounds of the model.                                                    *)
(***************************************************************************)
\* largest terminal width (columns) an event or terminal::size() reports
MaxWidth == 4
\* largest terminal height (rows)
MaxHeight == 2
\* usize::MAX, scaled down so that saturating_add reaches it
UsizeMax == 3
\* longest line, in grapheme clusters, of the single-line files of LayoutSpec
MaxLineLen == 5

(***************************************************************************)
(* Bytes, text and grapheme clusters.                                      *)
(***************************************************************************)
\* b'\n', the delimiter of BufRead::read_line
LF == 10
\* `as u16` keeps the value modulo 2^16
U16Modulus == 65536
\* File::open leaves the stream at position 0; main captures it as start_pos
start_pos == 0

\* F applied to the value of x: x is evaluated once, before F
ApplyTo(x, F(_)) == CHOOSE y \in {F(v) : v \in {x}} : TRUE

Min(a, b) == IF a < b THEN a ELSE b
Max(a, b) == IF a > b THEN a ELSE b

\* UTF-8 continuation bytes 0x80..0xBF never start a code point
IsContinuation(b) == b \in 128..191
\* lead byte 0xCC: U+0300..U+033F, combining marks (Grapheme_Extend)
IsExtendLead(b) == b = 204

\* is there a grapheme cluster boundary before the byte at 0-based index i?
\* (UAX #29: break at the start, around LF, and before every code point
\* that is not an Extend character)
IsBoundary(line, i) ==
    \/ i = 0
    \/ /\ ~IsContinuation(line[i + 1])
       /\ ~(IsExtendLead(line[i + 1]) /\ line[i] # LF)

\* line.grapheme_indices(true).map(|(i, _)| i): 0-based byte index of the
\* start of every grapheme cluster of the line, in order
GraphemeIndices(line) ==
    SelectSeq([k \in 1..Len(line) |-> k - 1], LAMBDA i : IsBoundary(line, i))

(***************************************************************************)
(* Terminal commands (crossterm), as queued on the writer.                 *)
(***************************************************************************)
Cmd(op, n, m, text) == [op |-> op, n |-> n, m |-> m, text |-> text]
ClearAll == Cmd("ClearAll", 0, 0, <<>>)
ClearCurrentLine == Cmd("ClearCurrentLine", 0, 0, <<>>)
MoveTo(col, row) == Cmd("MoveTo", col, row, <<>>)
MoveRight(n) == Cmd("MoveRight", n, 0, <<>>)
PrintCmd(text) == Cmd("Print", 0, 0, text)
Flush == Cmd("Flush", 0, 0, <<>>)
EnterAlternateScreen == Cmd("EnterAlternateScreen", 0, 0, <<>>)
LeaveAlternateScreen == Cmd("LeaveAlternateScreen", 0, 0, <<>>)
Hide == Cmd("Hide", 0, 0, <<>>)
Show == Cmd("Show", 0, 0, <<>>)
DisableLineWrap == Cmd("DisableLineWrap", 0, 0, <<>>)
EnableLineWrap == Cmd("EnableLineWrap", 0, 0, <<>>)

(***************************************************************************)
(* queue_centered_line                                                     *)
(***************************************************************************)
\* the row's cursor move and clear, queued before the text is measured
RowPrefix(row) == <<MoveTo(0, row), ClearCurrentLine>>

\* mutant: the pad rounds up
PadColumnsRoundUp(diff) == ((diff % 65536) + 1) \div 2

\* `diff as u16 / 2`: the cast binds tighter than the division
PadColumns(diff) == (diff % U16Modulus) \div 2

\* mutant: the skip rounds up
ClipLowRoundUp(diff) == (diff + 1) \div 2
\* mutant: the slice ends diff / 2 clusters before the end of the line
ClipHighFromEnd(max_width, diff) == max_width + diff - diff \div 2

\* the clip branch indexes segment_buffer at diff / 2 and at
\* max_width - diff / 2 and slices the line between the two byte offsets;
\* an index outside the buffer, a subtraction below zero or a slice whose
\* start is after its end panics
ClipLow(diff) == diff \div 2
ClipHigh(max_width, diff) == max_width - diff \div 2

ClipPanics(segment_buffer, max_width, diff) ==
    \/ ClipLow(diff) >= Len(segment_buffer)
    \/ ClipHigh(max_width, diff) < 0
    \/ ClipHigh(max_width, diff) >= Len(segment_buffer)
    \/ segment_buffer[ClipLow(diff) + 1] >
         segment_buffer[ClipHigh(max_width, diff) + 1]

\* &line[segment_buffer[lo]..segment_buffer[hi]]
ClipSlice(line, segment_buffer, max_width, diff) ==
    SubSeq(line, segment_buffer[ClipLow(diff) + 1] + 1,
                 segment_buffer[ClipHigh(max_width, diff) + 1])

\* one call of queue_centered_line: `call` is what it was given, what it
\* measured and how it ended, `ops` the commands it queued
QueueCenteredLine(line, row, max_width) ==
    LET segment_buffer == GraphemeIndices(line)
        width == Len(segment_buffer)
        diff == Max(max_width, width) - Min(max_width, width)
        given == [line |-> line, row |-> row, max_width |-> max_width,
                  width |-> width, diff |-> diff]
    IN  IF width < max_width
        THEN [call |-> given @@ [result |-> "ok", branch |-> "pad",
                                 left_pad |-> PadColumns(diff), text |-> line],
              ops |-> RowPrefix(row) \o
                      <<MoveRight(PadColumns(diff)), PrintCmd(line), Flush>>]
        ELSE IF ClipPanics(segment_buffer, max_width, diff)
        THEN [call |-> given @@ [result |-> "panic", branch |-> "clip",
                                 left_pad |-> 0, text |-> <<>>],
              ops |-> RowPrefix(row)]
        ELSE LET text == ClipSlice(line, segment_buffer, max_width, diff)
             IN  [call |-> given @@ [result |-> "ok", branch |-> "clip",
                                     left_pad |-> 0, text |-> text],
                  ops |-> RowPrefix(row) \o <<PrintCmd(text), Flush>>]

(***************************************************************************)
(* RefLineIter over the BufReader, and the adaptors display puts on it.    *)
(***************************************************************************)
\* index of the last byte read_line consumes from position pos: the first
\* LF at or after pos, or the end of the stream
LineEnd(f, pos) ==
    IF \E i \in (pos + 1)..Len(f) : f[i] = LF
    THEN CHOOSE i \in (pos + 1)..Len(f) :
             /\ f[i] = LF
             /\ \A j \in (pos + 1)..(i - 1) : f[j] # LF
    ELSE Len(f)

\* reader.read_line(&mut buf): the bytes it takes from the stream
ReadLine(f, pos) == SubSeq(f, pos + 1, LineEnd(f, pos))

\* bytes of the UTF-8 sequence a lead byte starts; 0 for a byte that cannot
\* start one
Utf8SequenceLen(b) ==
    IF b < 128 THEN 1
    ELSE IF b \in 194..223 THEN 2
    ELSE IF b \in 224..239 THEN 3
    ELSE IF b \in 240..244 THEN 4
    ELSE 0

\* str::from_utf8(bytes).is_ok(), as read_line checks what it appended:
\* every lead byte has its continuation bytes and every continuation byte
\* belongs to a lead byte
IsUtf8(bytes) ==
    \A i \in 1..Len(bytes) :
        IF IsContinuation(bytes[i])
        THEN \E j \in 1..(i - 1) :
                 /\ ~IsContinuation(bytes[j])
                 /\ j + Utf8SequenceLen(bytes[j]) > i
                 /\ \A m \in (j + 1)..i : IsContinuation(bytes[m])
        ELSE /\ Utf8SequenceLen(bytes[i]) >= 1
             /\ i + Utf8SequenceLen(bytes[i]) - 1 <= Len(bytes)
             /\ \A m \in (i + 1)..(i + Utf8SequenceLen(bytes[i]) - 1) :
                    IsContinuation(bytes[m])

\* RefLineIter::next.  it = [pos, alive]; item is <<line>> for Some(Ok(line))
\* and <<>> for None; err marks Some(Err(_)): read_line has taken the bytes
\* of the line from the stream and reports that they are not UTF-8
RefLineIterNext(f, it) ==
    IF it.alive
    THEN IF Len(ReadLine(f, it.pos)) = 0
         THEN [item |-> <<>>, err |-> FALSE,
               it |-> [pos |-> it.pos, alive |-> FALSE]]
         ELSE [item |-> <<ReadLine(f, it.pos)>>,
               err |-> ~IsUtf8(ReadLine(f, it.pos)),
               it |-> [pos |-> LineEnd(f, it.pos), alive |-> TRUE]]
    ELSE [item |-> <<>>, err |-> FALSE, it |-> it]

\* Iterator::advance_by(n), as Skip uses it: n calls of next, the items
\* dropped (Some(Err(_)) like Some(Ok(_))), stopping at the first None
RECURSIVE AdvanceBy(_, _, _)
AdvanceBy(f, it, n) ==
    IF n = 0
    THEN it
    ELSE ApplyTo(RefLineIterNext(f, it),
                 LAMBDA r : IF r.item = <<>> THEN r.it
                            ELSE AdvanceBy(f, r.it, n - 1))

\* Skip::next: the first call drops scroll_pos items, then yields the next
SkipNext(f, it, n) ==
    IF n > 0
    THEN ApplyTo(AdvanceBy(f, it, n),
                 LAMBDA skipped :
                     IF skipped.alive THEN RefLineIterNext(f, skipped)
                     ELSE [item |-> <<>>, err |-> FALSE, it |-> skipped])
    ELSE RefLineIterNext(f, it)

\* how many empty lines display_centered chains after the file's lines:
\* iter::once_with(String::new)
ChainedEmptyLines == 1

(***************************************************************************)
(* display_centered                                                        *)
(***************************************************************************)
\* the for loop over lines.chain(once_with(..)).take(term_height).enumerate()
\* c = [it, n (lines Skip still has to drop), front (the file half of the
\*      chain is not exhausted), once (empty lines left), take, row,
\*      calls, ops]
\* result: "ok", "panic", or "err" when `line?` returns the error of a read
RECURSIVE DisplayLoop(_, _, _)
\* one turn of the loop: r is what the iterator yielded, q the call of
\* queue_centered_line on it
DisplayRow(f, term_width, c, r, q) ==
    IF q.call.result = "panic"
    THEN [result |-> "panic", pos |-> r.it.pos,
          calls |-> Append(c.calls, q.call), ops |-> c.ops \o q.ops]
    ELSE ApplyTo([it |-> r.it, n |-> 0, front |-> r.item # <<>>,
                  once |-> IF r.item # <<>> THEN c.once ELSE c.once - 1,
                  take |-> c.take - 1, row |-> c.row + 1,
                  calls |-> Append(c.calls, q.call), ops |-> c.ops \o q.ops],
                 LAMBDA next : DisplayLoop(f, term_width, next))

DisplayItem(f, term_width, c, r) ==
    IF r.item = <<>> /\ c.once = 0
    THEN [result |-> "ok", pos |-> r.it.pos, calls |-> c.calls, ops |-> c.ops]
    ELSE IF r.err
    THEN [result |-> "err", pos |-> r.it.pos, calls |-> c.calls, ops |-> c.ops]
    ELSE ApplyTo(QueueCenteredLine(IF r.item # <<>> THEN r.item[1] ELSE <<>>,
                                   c.row % U16Modulus, term_width),
                 LAMBDA q : DisplayRow(f, term_width, c, r, q))

DisplayLoop(f, term_width, c) ==
    IF c.take = 0
    THEN [result |-> "ok", pos |-> c.it.pos, calls |-> c.calls, ops |-> c.ops]
    ELSE ApplyTo(IF c.front THEN SkipNext(f, c.it, c.n)
                 ELSE [item |-> <<>>, err |-> FALSE, it |-> c.it],
                 LAMBDA r : DisplayItem(f, term_width, c, r))

\* mutant: one row more than the terminal has
DisplayCenteredExtraRow(f, pos, scroll_pos, sz) ==
    ApplyTo([it |-> [pos |-> pos, alive |-> TRUE], n |-> scroll_pos,
             front |-> TRUE, once |-> ChainedEmptyLines, take |-> sz[2] + 1,
             row |-> 0, calls |-> <<>>, ops |-> <<ClearAll>>],
            LAMBDA c : DisplayLoop(f, sz[1], c))

\* display_centered(writer, lines, (term_width, term_height)) on the lines
\* of file.ref_lines().skip(scroll_pos), the stream being at pos
DisplayCentered(f, pos, scroll_pos, sz) ==
    ApplyTo([it |-> [pos |-> pos, alive |-> TRUE], n |-> scroll_pos,
             front |-> TRUE, once |-> ChainedEmptyLines, take |-> sz[2],
             row |-> 0, calls |-> <<>>, ops |-> <<ClearAll>>],
            LAMBDA c : DisplayLoop(f, sz[1], c))

\* mutant: the stream is left where the last redraw stopped reading
SeekNowhere(pos, target) == pos

\* file.seek(SeekFrom::Start(target)): the stream position afterwards
Seek(pos, target) == target

\* the closure `display` of main: seek to start_pos, then display_centered
Display(f, pos, scroll_pos, sz) ==
    DisplayCentered(f, Seek(pos, start_pos), scroll_pos, sz)

(***************************************************************************)
(* The terminal surface: what the queued commands do to the screen.        *)
(* A row holds the column the text starts at and the text written.         *)
(***************************************************************************)
\* MoveRight(n) is taken to move n columns, n = 0 included.
BlankRow == [pad |-> 0, text |-> <<>>]

BlankCells(sz) == [r \in 0..(sz[2] - 1) |-> BlankRow]

ApplyCmd(t, c, sz) ==
    CASE c.op = "ClearAll" -> [t EXCEPT !.cells = BlankCells(sz)]
      [] c.op = "MoveTo" -> [t EXCEPT !.col = c.n, !.row = c.m]
      [] c.op = "ClearCurrentLine" ->
             IF t.row \in DOMAIN t.cells
             THEN [t EXCEPT !.cells[t.row] = BlankRow] ELSE t
      [] c.op = "MoveRight" -> [t EXCEPT !.col = t.col + c.n]
      [] c.op = "Print" ->
             IF t.row \in DOMAIN t.cells
             THEN [t EXCEPT !.cells[t.row] = [pad |-> t.col, text |-> c.text]]
             ELSE t
      [] c.op = "EnterAlternateScreen" -> [t EXCEPT !.alternate = TRUE]
      [] c.op = "LeaveAlternateScreen" -> [t EXCEPT !.alternate = FALSE]
      [] c.op = "Hide" -> [t EXCEPT !.cursor_shown = FALSE]
      [] c.op = "Show" -> [t EXCEPT !.cursor_shown = TRUE]
      [] c.op = "DisableLineWrap" -> [t EXCEPT !.line_wrap = FALSE]
      [] c.op = "EnableLineWrap" -> [t EXCEPT !.line_wrap = TRUE]
      [] OTHER -> t

RECURSIVE ApplyOps(_, _, _)
ApplyOps(t, ops, sz) ==
    IF ops = <<>> THEN t
    ELSE ApplyOps(ApplyCmd(t, Head(ops), sz), Tail(ops), sz)

\* the terminal the program is started in
FreshTerminal(sz) ==
    [cells |-> BlankCells(sz), row |-> 0, col |-> 0, alternate |-> FALSE,
     cursor_shown |-> TRUE, line_wrap |-> TRUE]

\* main, before the file is opened
StartupOps == <<EnterAlternateScreen, ClearAll, Hide, DisableLineWrap, Flush>>
\* main, after the event loop
ShutdownOps == <<ClearAll, LeaveAlternateScreen, Show, EnableLineWrap, Flush>>

(***************************************************************************)
(* Input: files, terminal sizes and events.                                *)
(***************************************************************************)
\* grapheme clusters as UTF-8: "a", "b", U+00E9, and "e" + U+0301
GraphemeA == <<97>>
GraphemeB == <<98>>
GraphemeEAcute == <<195, 169>>
GraphemeECombining == <<101, 204, 129>>
Newline == <<LF>>

Files ==
    { <<>>,
      GraphemeA \o Newline,
      GraphemeA \o GraphemeB \o Newline \o Newline \o GraphemeB,
      GraphemeECombining \o GraphemeEAcute \o Newline \o
        GraphemeA \o GraphemeB \o GraphemeA \o GraphemeB \o GraphemeA \o
        GraphemeB \o Newline,
      GraphemeA \o GraphemeB \o GraphemeEAcute \o GraphemeA \o GraphemeB \o
        Newline \o GraphemeA \o GraphemeB }

Sizes == (1..MaxWidth) \X (1..MaxHeight)

NONE == {}
CONTROL == {"CONTROL"}
SHIFT == {"SHIFT"}
KeyModifiers == {NONE, CONTROL, SHIFT}
\* "c", "q", "Q", "x" stand for KeyCode::Char of that character
KeyCodes == {"c", "q", "Q", "x", "Down", "Up"}
KeyEventKinds == {"Press", "Repeat", "Release"}

KeyEvents ==
    [type : {"Key"}, code : KeyCodes, modifiers : KeyModifiers,
     kind : KeyEventKinds, size : {<<0, 0>>}]
ResizeEvents ==
    [type : {"Resize"}, code : {"-"}, modifiers : {NONE}, kind : {"-"},
     size : Sizes]
\* focus, mouse and paste events
OtherEvents ==
    [type : {"Other"}, code : {"-"}, modifiers : {NONE}, kind : {"-"},
     size : {<<0, 0>>}]
Events == KeyEvents \cup ResizeEvents \cup OtherEvents
NoEvent ==
    [type |-> "None", code |-> "-", modifiers |-> NONE, kind |-> "-",
     size |-> <<0, 0>>]

(***************************************************************************)
(* State.                                                                  *)
(***************************************************************************)
VARIABLES
    file,        \* the bytes of the input file
    cursor,      \* stream position of the BufReader
    scroll_pos,  \* lines skipped from the top
    scroll_before, \* scroll_pos when the last step began
    size,        \* <<columns, rows>>
    state,       \* "Starting", "Running", "Terminated", "Panicked", or
                 \* "Failed": main returned an Err through a `?`
    raw_mode,    \* terminal::enable_raw_mode is in effect
    screen,      \* the terminal
    ev,          \* the event event::read() returned last
    displays,    \* arguments of the display calls of the last step
    calls,       \* the queue_centered_line calls of the last step
    out          \* the commands queued by the last step

vars == <<file, cursor, scroll_pos, scroll_before, size, state, raw_mode, screen, ev,
          displays, calls, out>>

Init ==
    /\ file \in Files
    /\ cursor = start_pos
    /\ scroll_pos = 0
    /\ scroll_before = 0
    /\ size \in Sizes
    /\ state = "Starting"
    /\ raw_mode = TRUE
    /\ screen = ApplyOps(FreshTerminal(size), StartupOps, size)
    /\ ev = NoEvent
    /\ displays = <<>>
    /\ calls = <<>>
    /\ out = StartupOps

(***************************************************************************)
(* Steps of main.                                                          *)
(***************************************************************************)
\* display(sp, sz)?
Redraw(sp, sz) ==
    LET d == Display(file, cursor, sp, sz)
    IN  /\ cursor' = d.pos
        /\ calls' = d.calls
        /\ out' = d.ops
        /\ screen' = ApplyOps(screen, d.ops, sz)
        /\ displays' = <<[scroll_pos |-> sp, size |-> sz]>>
        /\ state' = CASE d.result = "ok" -> "Running"
                       [] d.result = "panic" -> "Panicked"
                       [] d.result = "err" -> "Failed"
        /\ scroll_before' = scroll_pos

\* an event that changes nothing is consumed and the loop reads the next
NoRedraw ==
    /\ displays' = <<>>
    /\ calls' = <<>>
    /\ out' = <<>>
    /\ scroll_before' = scroll_pos
    /\ UNCHANGED <<cursor, screen>>

\* mutant: the increment wraps at the maximum
wrapping_add(x) == (x + 1) % (UsizeMax + 1)
\* mutant: the decrement wraps at zero
wrapping_sub(x) == IF x = 0 THEN UsizeMax ELSE x - 1

saturating_add(x) == IF x >= UsizeMax THEN UsizeMax ELSE x + 1
saturating_sub(x) == IF x = 0 THEN 0 ELSE x - 1

\* the arm of the match in the event loop that takes the event
IsQuitKey(e) ==
    /\ e.type = "Key"
    /\ \/ e.code = "c" /\ e.modifiers = CONTROL
       \/ e.code = "q"
\* mutant: the second arm does not look at the kind of the key event
IsAnyKind(e) == e.type = "Key" /\ ~(e.code = "q") /\
                ~(e.code = "c" /\ e.modifiers = CONTROL)

IsPress(e) == e.type = "Key" /\ ~IsQuitKey(e) /\ e.kind = "Press"
IsDown(e) == IsPress(e) /\ e.code = "Down"
IsUp(e) == IsPress(e) /\ e.code = "Up"
IsResize(e) == e.type = "Resize"
IsIgnored(e) == ~IsQuitKey(e) /\ ~IsDown(e) /\ ~IsUp(e) /\ ~IsResize(e)

\* mutant: the loop is entered without the first display
InitialDisplaySkipped ==
    /\ state = "Starting"
    /\ state' = "Running"
    /\ NoRedraw
    /\ UNCHANGED <<file, scroll_pos, size, raw_mode, ev>>

\* display(scroll_pos, size)? before the loop
InitialDisplay ==
    /\ state = "Starting"
    /\ Redraw(scroll_pos, size)
    /\ UNCHANGED <<file, scroll_pos, size, raw_mode, ev>>

\* break 'event_l, then the rest of main
Quit ==
    /\ state = "Running"
    /\ \E e \in Events :
         /\ IsQuitKey(e)
         /\ ev' = e
    /\ state' = "Terminated"
    /\ out' = ShutdownOps
    /\ screen' = ApplyOps(screen, ShutdownOps, size)
    /\ raw_mode' = FALSE
    /\ displays' = <<>>
    /\ calls' = <<>>
    /\ scroll_before' = scroll_pos
    /\ UNCHANGED <<file, cursor, scroll_pos, size>>

ScrollDown ==
    /\ state = "Running"
    /\ \E e \in Events :
         /\ IsDown(e)
         /\ ev' = e
    /\ scroll_pos' = saturating_add(scroll_pos)
    /\ Redraw(scroll_pos', size)
    /\ UNCHANGED <<file, size, raw_mode>>

ScrollUp ==
    /\ state = "Running"
    /\ \E e \in Events :
         /\ IsUp(e)
         /\ ev' = e
    /\ scroll_pos' = saturating_sub(scroll_pos)
    /\ Redraw(scroll_pos', size)
    /\ UNCHANGED <<file, size, raw_mode>>

Resize ==
    /\ state = "Running"
    /\ \E e \in Events :
         /\ IsResize(e)
         /\ ev' = e
         /\ IF e.size # size
            THEN /\ size' = e.size
                 /\ Redraw(scroll_pos, size')
            ELSE /\ NoRedraw
                 /\ UNCHANGED <<size, state>>
    /\ UNCHANGED <<file, scroll_pos, raw_mode>>

Ignore ==
    /\ state = "Running"
    /\ \E e \in Events :
         /\ IsIgnored(e)
         /\ ev' = e
    /\ NoRedraw
    /\ UNCHANGED <<file, scroll_pos, size, state, raw_mode>>

Next ==
    \/ InitialDisplay
    \/ Quit
    \/ ScrollDown
    \/ ScrollUp
    \/ Resize
    \/ Ignore

Spec == Init /\ [][Next]_vars

(***************************************************************************)
(* The program with I/O failures: files with a line that is not UTF-8      *)
(* (read_line fails with InvalidData), a failing seek, a failing           *)
(* event::read.  Each failure leaves main through a `?`.  The file is read *)
(* again from start_pos by every redraw, so what another process writes    *)
(* to it between two redraws is what the next redraw reads.                *)
(***************************************************************************)
\* a byte that occurs in no UTF-8 text
InvalidByte == <<255>>

FaultFiles ==
    { GraphemeA \o Newline \o GraphemeEAcute,
      InvalidByte \o Newline \o GraphemeA \o GraphemeB,
      GraphemeA \o Newline \o InvalidByte \o Newline \o Newline \o GraphemeB }

FaultInit ==
    /\ file \in FaultFiles
    /\ cursor = start_pos
    /\ scroll_pos = 0
    /\ scroll_before = 0
    /\ size \in Sizes
    /\ state = "Starting"
    /\ raw_mode = TRUE
    /\ screen = ApplyOps(FreshTerminal(size), StartupOps, size)
    /\ ev = NoEvent
    /\ displays = <<>>
    /\ calls = <<>>
    /\ out = StartupOps

\* main returns the error: nothing after the `?` runs
ReturnErr ==
    /\ state' = "Failed"
    /\ NoRedraw
    /\ UNCHANGED <<file, raw_mode>>

\* event::read()? fails
EventReadFails ==
    /\ state = "Running"
    /\ ReturnErr
    /\ UNCHANGED <<scroll_pos, size, ev>>

\* file.seek(..)? fails in display: before the loop, after a Down or Up
\* key-press, or after a resize to another size
SeekFails ==
    /\ \/ /\ state = "Starting"
          /\ UNCHANGED <<scroll_pos, size, ev>>
       \/ /\ state = "Running"
          /\ \E e \in Events :
               /\ ev' = e
               /\ \/ IsDown(e) /\ scroll_pos' = saturating_add(scroll_pos)
                               /\ size' = size
                  \/ IsUp(e) /\ scroll_pos' = saturating_sub(scroll_pos)
                             /\ size' = size
                  \/ IsResize(e) /\ e.size # size /\ size' = e.size
                                 /\ scroll_pos' = scroll_pos
    /\ ReturnErr

\* the file, intact so far, is rewritten while the program waits in
\* event::read(); the BufReader drops its buffer at the next seek
FileRewritten ==
    /\ state = "Running"
    /\ IsUtf8(file)
    /\ file' \in FaultFiles \ {file}
    /\ NoRedraw
    /\ UNCHANGED <<scroll_pos, size, state, raw_mode, ev>>

FaultNext ==
    \/ Next
    \/ EventReadFails
    \/ SeekFails
    \/ FileRewritten

FaultSpec == FaultInit /\ [][FaultNext]_vars

(***************************************************************************)
(* The layout of one line: the program on single-line files in a terminal  *)
(* of one row, so that the one call of queue_centered_line gets the whole  *)
(* file as its line.                                                       *)
(***************************************************************************)
Graphemes == {GraphemeA, GraphemeEAcute, GraphemeECombining}

RECURSIVE TextsUpTo(_)
TextsUpTo(n) ==
    IF n = 0 THEN {<<>>}
    ELSE LET shorter == TextsUpTo(n - 1)
         IN  shorter \cup {t \o g : t \in shorter, g \in Graphemes}

LayoutFiles ==
    TextsUpTo(MaxLineLen) \cup {t \o Newline : t \in TextsUpTo(MaxLineLen - 1)}

LayoutInit ==
    /\ file \in LayoutFiles
    /\ cursor = start_pos
    /\ scroll_pos = 0
    /\ scroll_before = 0
    /\ size \in (1..MaxWidth) \X {1}
    /\ state = "Starting"
    /\ raw_mode = TRUE
    /\ screen = ApplyOps(FreshTerminal(size), StartupOps, size)
    /\ ev = NoEvent
    /\ displays = <<>>
    /\ calls = <<>>
    /\ out = StartupOps

LayoutNext == InitialDisplay

LayoutSpec == LayoutInit /\ [][LayoutNext]_vars

(***************************************************************************)
(* Vocabulary of the properties.                                           *)
(***************************************************************************)
GraphemeCount(t) == Len(GraphemeIndices(t))

\* the grapheme clusters of t, each as its bytes
Clusters(t) ==
    LET idx == GraphemeIndices(t)
    IN  [k \in 1..Len(idx) |->
            SubSeq(t, idx[k] + 1, IF k < Len(idx) THEN idx[k + 1] ELSE Len(t))]

RECURSIVE Concat(_)
Concat(ss) == IF ss = <<>> THEN <<>> ELSE Head(ss) \o Concat(Tail(ss))

\* the lines of the file, from its top
RECURSIVE LinesFrom(_, _)
LinesFrom(f, pos) ==
    IF pos >= Len(f) THEN <<>>
    ELSE <<ReadLine(f, pos)>> \o LinesFrom(f, LineEnd(f, pos))
FileLines == LinesFrom(file, start_pos)

\* the MoveRight and Print commands of the last step, in order
Written == SelectSeq(out, LAMBDA c : c.op \in {"MoveRight", "Print"})

\* the last step was a redraw
Redrawn == displays # <<>>
\* rows the last redraw positioned, cleared and wrote
PaintedRows == {calls[i].row : i \in {j \in 1..Len(calls) : calls[j].result = "ok"}}

(***************************************************************************)
(* C1  Clip case: a line of at least W grapheme clusters is written as     *)
(* exactly W clusters, the ones after the first floor((n - W) / 2), with   *)
(* no left pad.                                                            *)
(* Fails: the slice ends at cluster W - diff/2, not diff/2 + W; a line of  *)
(* exactly W clusters indexes the buffer at W and panics.                  *)
(***************************************************************************)
C1_ClipCase ==
    (Redrawn /\ GraphemeCount(file) >= size[1]) =>
        LET n == GraphemeCount(file)
            W == size[1]
            skipped == (n - W) \div 2
        IN  /\ state = "Running"
            /\ Written = <<PrintCmd(Concat(SubSeq(Clusters(file),
                                                  skipped + 1, skipped + W)))>>
            /\ GraphemeCount(screen.cells[0].text) = W
            /\ screen.cells[0].pad = 0

(***************************************************************************)
(* C2  Pad case: a line of fewer than W grapheme clusters is written       *)
(* unchanged after the cursor moved right floor((W - n) / 2) columns;      *)
(* pad plus text stay below W and nothing is written after the text.       *)
(***************************************************************************)
C2_PadCase ==
    (Redrawn /\ GraphemeCount(file) < size[1]) =>
        LET n == GraphemeCount(file)
            W == size[1]
            left_pad == (W - n) \div 2
        IN  /\ state = "Running"
            /\ Written = <<MoveRight(left_pad), PrintCmd(file)>>
            /\ screen.cells[0] = [pad |-> left_pad, text |-> file]
            /\ left_pad + GraphemeCount(screen.cells[0].text) < W

\* a three-byte cluster and a newline, padded by one column
C2_Witness ==
    /\ Redrawn
    /\ file = GraphemeECombining \o Newline
    /\ size[1] = 4
    /\ screen.cells[0].pad = 1
    /\ state = "Running"

(***************************************************************************)
(* C3  Redraw completeness: a redraw positions, clears and writes exactly  *)
(* the rows 0..height-1, synthesizing empty lines past the end of file.    *)
(* Fails: one empty line is chained, so a redraw paints                    *)
(* min(height, lines left + 1) rows.                                       *)
(***************************************************************************)
C3_RedrawCompleteness ==
    (Redrawn /\ state = "Running") =>
        /\ Len(calls) = size[2]
        /\ PaintedRows = 0..(size[2] - 1)

(***************************************************************************)
(* C4  Row-to-line mapping: after a redraw at offset k, row r shows the    *)
(* layout of line k + r of the file when there is such a line and is       *)
(* blank otherwise; past the end of file every row is blank and the redraw *)
(* succeeds.                                                               *)
(* Fails with the panic of the clip branch (C1): the row of the line that  *)
(* panics, and the rows below it, stay cleared.                            *)
(***************************************************************************)
\* row r holds what a queue_centered_line call of the last redraw wrote
\* for the given line
RowShowsLine(r, line) ==
    \E i \in 1..Len(calls) :
        /\ calls[i].row = r
        /\ calls[i].line = line
        /\ calls[i].result = "ok"
        /\ screen.cells[r] = [pad |-> calls[i].left_pad, text |-> calls[i].text]

RowToLine ==
    LET k == displays[1].scroll_pos
        n == Len(FileLines)
    IN  /\ \A r \in 0..(size[2] - 1) :
            IF k + r < n
            THEN RowShowsLine(r, FileLines[k + r + 1])
            ELSE screen.cells[r].text = <<>>
        /\ k >= n => state = "Running"

C4_RowToLine == Redrawn => RowToLine

\* the mapping does hold after every redraw that ran to its end
RowToLineWhenCompleted == (Redrawn /\ state = "Running") => RowToLine

(***************************************************************************)
(* C5  Scroll floor: the scroll offset is never negative, and an Up        *)
(* key-press at offset 0 leaves it at 0 and the session running.           *)
(***************************************************************************)
C5_ScrollFloor ==
    /\ [](scroll_pos >= 0)
    /\ [][(state = "Running" /\ scroll_pos = 0 /\ IsUp(ev'))
            => (scroll_pos' = 0 /\ state' = "Running")]_vars

C5_Witness ==
    /\ state = "Running"
    /\ IsUp(ev)
    /\ scroll_before = 0
    /\ scroll_pos = 0
    /\ Redrawn

(***************************************************************************)
(* C6  Scroll transitions: while Running, a Down key-press adds one to the *)
(* offset (leaving it unchanged only at the maximum) and an Up key-press   *)
(* at an offset above 0 subtracts one; the size is unchanged and the step  *)
(* makes exactly one display call, with the new offset.                    *)
(***************************************************************************)
OneRedrawAt(k, sz) == displays' = <<[scroll_pos |-> k, size |-> sz]>>

C6_ScrollTransitions ==
    [][state = "Running" =>
        /\ IsDown(ev') =>
             /\ scroll_pos' = IF scroll_pos = UsizeMax THEN scroll_pos
                              ELSE scroll_pos + 1
             /\ size' = size
             /\ OneRedrawAt(scroll_pos', size)
        /\ (IsUp(ev') /\ scroll_pos > 0) =>
             /\ scroll_pos' = scroll_pos - 1
             /\ size' = size
             /\ OneRedrawAt(scroll_pos', size)]_vars

\* a Down key-press at the maximum
C6_Witness ==
    /\ IsDown(ev)
    /\ scroll_before = UsizeMax
    /\ scroll_pos = UsizeMax
    /\ displays = <<[scroll_pos |-> UsizeMax, size |-> size]>>

(***************************************************************************)
(* C7  Redraw idempotence: what a redraw shows depends on the file, the    *)
(* offset and the size alone, not on where the stream was left: it is what *)
(* a redraw of a freshly opened file shows, and a redraw with the offset   *)
(* and size already on screen leaves the screen as it is.                  *)
(***************************************************************************)
FreshView(k, sz) ==
    ApplyOps(FreshTerminal(sz),
             DisplayCentered(file, start_pos, k, sz).ops, sz).cells

C7_RedrawIdempotent ==
    /\ [](Redrawn =>
            screen.cells = FreshView(displays[1].scroll_pos, displays[1].size))
    /\ [][(state = "Running" /\ OneRedrawAt(scroll_pos, size))
            => screen'.cells = screen.cells]_vars

\* offset 0 is redrawn after a redraw at offset 1 moved the stream
C7_Witness ==
    /\ Redrawn
    /\ IsUp(ev)
    /\ scroll_before = 1
    /\ scroll_pos = 0
    /\ cursor # start_pos
    /\ Len(FileLines) >= 2
    /\ state = "Running"

(***************************************************************************)
(* C8  Quit: once Ctrl+C, a plain q or a plain Q has been read, the        *)
(* session is Terminated and the step made no redraw.                      *)
(* Fails: only Char('q') is matched; Char('Q') is ignored.                 *)
(***************************************************************************)
ClaimedQuitKey(e) ==
    /\ e.type = "Key"
    /\ \/ e.code = "c" /\ e.modifiers = CONTROL
       \/ e.code \in {"q", "Q"} /\ e.modifiers = NONE

C8_QuitTransition ==
    (ClaimedQuitKey(ev) /\ ev.kind = "Press") =>
        (state = "Terminated" /\ ~Redrawn)

(***************************************************************************)
(* C9  Ignored events: an event that is no quit key, no Down or Up         *)
(* key-press and no resize to other dimensions, and every key-release      *)
(* whatever its code, leaves Running, offset and size as they are and      *)
(* makes no redraw.                                                        *)
(* Fails: the quit arms match any kind, so releasing q or Ctrl+C quits.    *)
(***************************************************************************)
\* the events the claim leaves out: the quit keys in any reading (c with
\* Control, q, Q), the Down and Up key-presses, a resize to other dimensions
NotIgnoredAsClaimed(e, sz) ==
    \/ /\ e.type = "Key"
       /\ \/ e.code = "c" /\ CONTROL \subseteq e.modifiers
          \/ e.code \in {"q", "Q"}
          \/ e.kind = "Press" /\ e.code \in {"Down", "Up"}
    \/ e.type = "Resize" /\ e.size # sz

ClaimedIgnored(e, sz) ==
    \/ e.type = "Key" /\ e.kind = "Release"
    \/ e \in Events /\ ~NotIgnoredAsClaimed(e, sz)

NothingHappens ==
    /\ state' = "Running"
    /\ scroll_pos' = scroll_pos
    /\ size' = size
    /\ displays' = <<>>
    /\ screen' = screen

C9_IgnoredEvents ==
    [][(state = "Running" /\ ClaimedIgnored(ev', size)) => NothingHappens]_vars

\* C9 as amended: ... in particular every key-release event of a key that
\* is no quit key, and every unrecognized key code, changes nothing and
\* makes no redraw
C9_IgnoredEventsAmended ==
    [][(state = "Running" /\ ev' \in Events /\ ~NotIgnoredAsClaimed(ev', size))
         => NothingHappens]_vars

\* the Down key was released
C9_Witness ==
    /\ state = "Running"
    /\ ev.type = "Key"
    /\ ev.kind = "Release"
    /\ ev.code = "Down"
    /\ ~Redrawn
    /\ scroll_before = scroll_pos

(***************************************************************************)
(* C10  Resize: a resize to other dimensions replaces width and height     *)
(* together, keeps the offset and makes exactly one redraw, in which every *)
(* visible row is laid out for the new width; a resize to the current      *)
(* dimensions changes nothing and makes no redraw.                         *)
(* Fails with the panic of the clip branch (C1): a line that the new       *)
(* width makes panic is not laid out, nor are the rows below it.           *)
(***************************************************************************)
\* every row of the window that has a line shows it, laid out for width w
RowsLaidOutFor(w) ==
    \A r \in 0..(size'[2] - 1) :
        scroll_pos' + r < Len(FileLines) =>
            \E i \in 1..Len(calls') :
                /\ calls'[i].row = r
                /\ calls'[i].max_width = w
                /\ calls'[i].result = "ok"
                /\ screen'.cells[r].text = calls'[i].text

ResizeFrame ==
    IF ev'.size # size
    THEN /\ size' = ev'.size
         /\ scroll_pos' = scroll_pos
         /\ OneRedrawAt(scroll_pos, ev'.size)
         /\ \A i \in 1..Len(calls') : calls'[i].max_width = ev'.size[1]
    ELSE /\ UNCHANGED <<size, scroll_pos, state, screen, cursor>>
         /\ displays' = <<>>

C10_ResizeTransition ==
    [][(state = "Running" /\ IsResize(ev')) =>
         /\ ResizeFrame
         /\ ev'.size # size => RowsLaidOutFor(ev'.size[1])]_vars

\* size, offset and the number of redraws do change as claimed
ResizeFrameHolds == [][(state = "Running" /\ IsResize(ev')) => ResizeFrame]_vars

(***************************************************************************)
(* C12  Newline excluded from layout: a line of n clusters followed by a   *)
(* newline is measured as n clusters wide and the newline is not written.  *)
(* Fails: read_line keeps the "\n", grapheme_indices counts it as a        *)
(* cluster and Print(line) writes it.                                      *)
(***************************************************************************)
EndsWithNewline(t) == t # <<>> /\ t[Len(t)] = LF
WithoutNewline(t) == SubSeq(t, 1, Len(t) - 1)

C12_NewlineExcluded ==
    (Redrawn /\ EndsWithNewline(file)) =>
        /\ calls[1].width = GraphemeCount(WithoutNewline(file))
        /\ \A i \in 1..Len(out) :
               \A j \in 1..Len(out[i].text) : out[i].text[j] # LF

(***************************************************************************)
(* C13  Tie-break: a line of exactly W + 1 clusters is written as its      *)
(* first W clusters (the last one is dropped), and with an odd diff in the *)
(* pad case the left pad is the smaller half of diff.                      *)
(***************************************************************************)
C13_TieBreak ==
    Redrawn =>
        LET n == GraphemeCount(file)
            W == size[1]
        IN  /\ n = W + 1 =>
                 /\ state = "Running"
                 /\ Written = <<PrintCmd(Concat(SubSeq(Clusters(file), 1, W)))>>
            /\ (n < W /\ (W - n) % 2 = 1) =>
                 \E p \in 0..W : /\ Written[1] = MoveRight(p)
                                 /\ 2 * p + 1 = W - n

\* three clusters in two columns; the dropped one is a combining sequence
C13_Witness ==
    /\ Redrawn
    /\ file = GraphemeA \o GraphemeEAcute \o GraphemeECombining
    /\ size[1] = 2
    /\ screen.cells[0].text = GraphemeA \o GraphemeEAcute
    /\ state = "Running"

(***************************************************************************)
(* C14  No row overflow: the left pad plus the clusters written to a row   *)
(* never exceed the width W, in the pad case and in the clip case.         *)
(***************************************************************************)
C14_NoRowOverflow ==
    Redrawn =>
        /\ \A r \in DOMAIN screen.cells :
               screen.cells[r].pad + GraphemeCount(screen.cells[r].text)
                   <= size[1]
        /\ \A i \in 1..Len(calls) :
               calls[i].left_pad + GraphemeCount(calls[i].text)
                   <= calls[i].max_width

\* a clipped line that fills the row
C14_Witness ==
    /\ Redrawn
    /\ calls[1].branch = "clip"
    /\ calls[1].result = "ok"
    /\ size[1] = 3
    /\ GraphemeCount(screen.cells[0].text) = 3

(***************************************************************************)
(* C15  Row bound: a redraw paints at most `height` rows and every row it  *)
(* addresses is one of 0..height-1.                                        *)
(***************************************************************************)
C15_RowBound ==
    Redrawn =>
        /\ Len(calls) <= size[2]
        /\ \A i \in 1..Len(calls) : calls[i].row = i - 1
        /\ \A i \in 1..Len(out) :
               out[i].op = "MoveTo" => out[i].m \in 0..(size[2] - 1)

\* more lines are left than the terminal has rows
C15_Witness ==
    /\ Redrawn
    /\ size[2] = 2
    /\ Len(calls) = 2
    /\ Len(FileLines) - scroll_pos > 2
    /\ state = "Running"

(***************************************************************************)
(* C16  No full-screen clear per redraw: a redraw clears only the rows it  *)
(* repaints; the whole screen is cleared at session start only.            *)
(* Fails: display_centered queues Clear(ClearType::All) first, every time. *)
(***************************************************************************)
C16_NoFullClearPerRedraw ==
    Redrawn => \A i \in 1..Len(out) : out[i] # ClearAll

(***************************************************************************)
(* C17  Batched flush: in a redraw nothing is flushed before the commands  *)
(* of all its rows are queued; there is one flush, after the last row.     *)
(* Fails: queue_centered_line flushes at the end of every row.             *)
(***************************************************************************)
C17_BatchedFlush ==
    (Redrawn /\ state = "Running") =>
        /\ out[Len(out)] = Flush
        /\ \A i \in 1..(Len(out) - 1) : out[i] # Flush

(***************************************************************************)
(* C20  Crash freedom: without I/O failures no redraw panics, whatever the *)
(* file, the size and the events, and the session ends only by a quit key. *)
(* Fails: the clip branch panics (C1), e.g. on a line of exactly W         *)
(* clusters.                                                               *)
(***************************************************************************)
C20_CrashFreedom ==
    /\ state # "Panicked"
    /\ \A i \in 1..Len(calls) : calls[i].result = "ok"
    /\ state \notin {"Starting", "Running"} =>
           (state = "Terminated" /\ IsQuitKey(ev))

(***************************************************************************)
(* C18  Initial redraw: the session starts at offset 0, and before any     *)
(* event is read exactly one redraw is made, at offset 0 and the startup   *)
(* size; that redraw needs no event to happen.                             *)
(***************************************************************************)
FirstStepIsTheInitialRedraw ==
    state = "Starting" =>
        /\ scroll_pos = 0
        /\ ev = NoEvent
        /\ displays = <<>>
        /\ displays' = <<[scroll_pos |-> 0, size |-> size]>>
        /\ out'[1] = ClearAll
        /\ scroll_pos' = 0
        /\ size' = size
        /\ ev' = NoEvent
        /\ state' # "Starting"

EventsOnlyAfterTheInitialRedraw ==
    /\ ev' # NoEvent => state = "Running"
    /\ state' # "Starting"

C18_InitialRedraw ==
    [][FirstStepIsTheInitialRedraw /\ EventsOnlyAfterTheInitialRedraw]_vars

\* the first redraw is done and no event has been read yet
C18_Witness ==
    /\ state = "Running"
    /\ ev = NoEvent
    /\ displays = <<[scroll_pos |-> 0, size |-> size]>>
    /\ Len(calls) >= 1

(***************************************************************************)
(* C11  Terminal release: on every exit path, the quit key or an I/O error *)
(* of a redraw, a seek, a line read or the event read, the terminal is     *)
(* restored before the program returns: alternate screen left, cursor      *)
(* shown, line wrap enabled, raw mode disabled.                            *)
(* Fails: an error leaves main through `?`, past the restore at the end.   *)
(***************************************************************************)
TerminalRestored ==
    /\ ~raw_mode
    /\ ~screen.alternate
    /\ screen.cursor_shown
    /\ screen.line_wrap

C11_TerminalRelease ==
    state \in {"Terminated", "Failed"} => TerminalRestored

\* the part that holds: the quit path restores the terminal
QuitRestoresTerminal ==
    state = "Terminated" => (TerminalRestored /\ out = ShutdownOps)

(***************************************************************************)
(* C19  Read failures abort: when the read of a line fails during a        *)
(* redraw, of a skipped line as of a displayed one, the redraw fails and   *)
(* the session aborts; a failed read is never taken for a line; a read of  *)
(* zero bytes ends the lines without an error.                             *)
(* Fails: Skip drops the Err of a skipped line like any other item.        *)
(***************************************************************************)
\* 1-based numbers of the lines of the file whose read fails
BadLines == {i \in 1..Len(FileLines) : ~IsUtf8(FileLines[i])}

C19_ReadFailuresAbort ==
    Redrawn =>
        LET k == displays[1].scroll_pos
            h == displays[1].size[2]
        IN  /\ ((\E i \in BadLines : i <= k + h) /\ state # "Panicked") =>
                 state = "Failed"
            /\ \A i \in 1..Len(calls) : IsUtf8(calls[i].line)
            /\ (BadLines = {} /\ state # "Panicked") => state = "Running"

\* the part that holds: the failed read of a line that would be displayed
\* aborts, and no line whose read failed is ever laid out
DisplayedReadFailureAborts ==
    Redrawn =>
        LET k == displays[1].scroll_pos
            h == displays[1].size[2]
        IN  /\ ((\E i \in BadLines : k < i /\ i <= k + h) /\
                state # "Panicked") => state = "Failed"
            /\ \A i \in 1..Len(calls) : IsUtf8(calls[i].line)
            /\ state = "Failed" => \E i \in BadLines : k < i /\ i <= k + h

====
